---- MODULE Spec2Model ----
(***************************************************************************)
(* Alert evaluation and notification pipeline of Payrixa                   *)
(* (src/payrixa/alerts/services.py): evaluate_drift_event,                 *)
(* send_alert_notification, _is_suppressed, process_pending_alerts.        *)
(*                                                                         *)
(* Time is counted in minutes.  Severities and thresholds are hundredths   *)
(* (0.75 is 75).  An AlertEvent id is its position in the alerts table.    *)
(***************************************************************************)
EXTENDS Integers, Sequences, FiniteSets, Bags, TLC

VARIABLES
    cfg,        \* the world of the run: signals, channels, settings (read-only to the engine)
    now,        \* timezone.now(), minutes
    alerts,     \* the AlertEvent table: sequence of rows, id = index
    audit,      \* bag of <<action, alert id>> audit events
    delivered,  \* bag of <<alert id, channel>>: transports that accepted the alert
    firstResult,\* drift event -> what its first evaluate_drift_event returned
    lastEval,   \* the evaluate_drift_event call that has just returned, if any
    lastSend,   \* the send_alert_notification call that has just returned, if any
    batch,      \* process_pending_alerts: position and counters
    judgments,  \* bag of <<alert id, verdict>>: the OperatorJudgment table
    store,      \* drift detection: committed aggregate, signal and event rows
    dd,         \* drift detection: the compute() call in flight or just finished
    wk,         \* concurrent callers: position and locals of each
    de,         \* the upstream_driftevent table and the insert that has just returned
    sc          \* scoring helpers: the calls that have just returned

vars == <<cfg, now, alerts, audit, delivered, firstResult, lastEval, lastSend, batch,
          judgments, store, dd, de, sc, wk, de, sc>>

(***************************************************************************)
(* Bounds of the model.                                                    *)
(***************************************************************************)
MaxTime == 241
MaxDeliver == 2
MaxJudgments == 2
MaxRuns == 2
MaxRows == 2
MaxSignals == 3
MaxSample == 41
DecimalPlaces == 4

TickSteps == {120, 121}

(***************************************************************************)
(* Program constants.                                                      *)
(***************************************************************************)
ALERT_SUPPRESSION_COOLDOWN == 240

DEFAULT_BASELINE_DAYS == 90
DEFAULT_CURRENT_DAYS == 14
MIN_SAMPLE_SIZE == 20

\* categorize_severity's fallback thresholds and compute_confidence_score's
\* z_threshold, in hundredths.
DefaultCritical == 30
DefaultHigh == 20
DefaultMedium == 10
Z_THRESHOLD == 196

NoTime == -1
NoAlert == 0
NoDate == -1

(***************************************************************************)
(* Fixtures: customers, drift events, alert rules, notification channels.  *)
(***************************************************************************)
Customers == {"c1", "c2"}

DriftEvents ==
    [d1 |-> [customer |-> "c1", payer |-> "PayerA", drift_type |-> "denial_rate", severity |-> 75],
     d2 |-> [customer |-> "c1", payer |-> "PayerA", drift_type |-> "denial_rate", severity |-> 72],
     d3 |-> [customer |-> "c1", payer |-> "PayerB", drift_type |-> "denial_rate", severity |-> 60],
     d4 |-> [customer |-> "c2", payer |-> "PayerA", drift_type |-> "denial_rate", severity |-> 80]]

DriftIds == DOMAIN DriftEvents

AlertRules ==
    [r1 |-> [customer |-> "c1", enabled |-> TRUE,  metric |-> "severity", threshold_type |-> "gte", threshold_value |-> 70],
     r2 |-> [customer |-> "c1", enabled |-> TRUE,  metric |-> "severity", threshold_type |-> "lt",  threshold_value |-> 74],
     r3 |-> [customer |-> "c1", enabled |-> FALSE, metric |-> "severity", threshold_type |-> "gte", threshold_value |-> 50],
     r4 |-> [customer |-> "c2", enabled |-> TRUE,  metric |-> "severity", threshold_type |-> "gte", threshold_value |-> 70]]

RuleIds == DOMAIN AlertRules

Channels ==
    [em1 |-> [customer |-> "c1", channel_type |-> "email",   has_target |-> TRUE],
     em0 |-> [customer |-> "c1", channel_type |-> "email",   has_target |-> FALSE],
     sl1 |-> [customer |-> "c1", channel_type |-> "slack",   has_target |-> TRUE],
     wh1 |-> [customer |-> "c1", channel_type |-> "webhook", has_target |-> TRUE],
     em2 |-> [customer |-> "c2", channel_type |-> "email",   has_target |-> TRUE]]

ChannelIds == DOMAIN Channels

DefaultEmail == "default"

NoRouting == [r \in RuleIds |-> {}]

\* The worlds the runs start from: the drift events the pipeline has detected,
\* which channels exist, which of them are enabled, which an AlertRule routes
\* to, SLACK_ENABLED, and whether operators judge the customer's alerts.
Worlds ==
    { [signals |-> {"d1", "d2"}, exists |-> {}, enabled |-> {},
       routing |-> NoRouting, slack_enabled |-> FALSE, feedback |-> FALSE],
      [signals |-> {"d1", "d3"}, exists |-> {"em1", "sl1"}, enabled |-> {"em1", "sl1"},
       routing |-> NoRouting, slack_enabled |-> TRUE, feedback |-> FALSE],
      [signals |-> {"d2"}, exists |-> {"em1", "sl1", "wh1"}, enabled |-> {"em1", "wh1"},
       routing |-> [NoRouting EXCEPT !["r1"] = {"sl1"}, !["r2"] = {"wh1"}],
       slack_enabled |-> TRUE, feedback |-> FALSE],
      [signals |-> {"d1", "d4"}, exists |-> {"em0", "sl1", "em2"}, enabled |-> {"em0", "sl1", "em2"},
       routing |-> [NoRouting EXCEPT !["r4"] = {"em2", "sl1"}],
       slack_enabled |-> FALSE, feedback |-> FALSE],
      [signals |-> {"d1"}, exists |-> {"em1", "sl1"}, enabled |-> {"em1", "sl1"},
       routing |-> NoRouting, slack_enabled |-> FALSE, feedback |-> FALSE],
      [signals |-> {"d2"}, exists |-> {}, enabled |-> {},
       routing |-> NoRouting, slack_enabled |-> FALSE, feedback |-> TRUE] }

(***************************************************************************)
(* Helpers.                                                                *)
(***************************************************************************)
Perms(S) ==
    { s \in [1..Cardinality(S) -> S] : \A i, j \in 1..Cardinality(S) : i # j => s[i] # s[j] }

AlertIds == 1..Len(alerts)

\* AlertRule.evaluate: the rule's metric of the signal against the threshold.
rule_evaluate(r, d) ==
    LET v == DriftEvents[d].severity
        t == AlertRules[r].threshold_value
        k == AlertRules[r].threshold_type
    IN  CASE k = "gte" -> v >= t
          [] k = "lte" -> v <= t
          [] k = "gt"  -> v > t
          [] k = "lt"  -> v < t
          [] k = "eq"  -> v = t

\* A rule queryset that does not filter on enabled.
enabled_rules_and_disabled(customer) ==
    { r \in RuleIds : AlertRules[r].customer = customer }

\* AlertRule.objects.filter(customer=..., enabled=True)
enabled_rules(customer) ==
    { r \in RuleIds : AlertRules[r].customer = customer /\ AlertRules[r].enabled }

\* The payload snapshot stored on a new AlertEvent (the fields read later).
build_payload(d, r) ==
    [product_name |-> "DriftWatch",
     signal_type  |-> DriftEvents[d].drift_type,
     entity_label |-> DriftEvents[d].payer,
     payer        |-> DriftEvents[d].payer,
     severity     |-> DriftEvents[d].severity,
     rule_name    |-> r]

\* AlertEvent.objects.filter(drift_event=d, alert_rule=r).first(): lowest id, or NoAlert
existing_alert(db, d, r) ==
    LET hits == { i \in 1..Len(db) : db[i].drift_event = d /\ db[i].alert_rule = r }
    IN  IF hits = {} THEN NoAlert ELSE CHOOSE i \in hits : \A j \in hits : i <= j

new_alert(d, r) ==
    [customer |-> DriftEvents[d].customer, alert_rule |-> r, drift_event |-> d,
     status |-> "pending", payload |-> build_payload(d, r),
     notification_sent_at |-> NoTime, error_message |-> "none"]

(***************************************************************************)
(* evaluate_drift_event                                                    *)
(***************************************************************************)
\* The audit table after create_audit_event(action, entity_id=id).
create_audit_event(au, action, id) == au (+) SetToBag({<<action, id>>})

\* A loop that creates an AlertEvent for every matching rule without looking
\* for an existing one.
RECURSIVE evaluate_loop_always_create(_, _, _)
evaluate_loop_always_create(d, order, acc) ==
    IF order = <<>> THEN acc
    ELSE IF ~rule_evaluate(Head(order), d)
      THEN evaluate_loop_always_create(d, Tail(order), acc)
    ELSE evaluate_loop_always_create(d, Tail(order),
             [alerts |-> Append(acc.alerts, new_alert(d, Head(order))),
              audit  |-> create_audit_event(acc.audit, "alert_event_created",
                                            Len(acc.alerts) + 1),
              result |-> Append(acc.result, Len(acc.alerts) + 1)])

\* A loop that emits 'alert_event_created' also for an AlertEvent it finds.
RECURSIVE evaluate_loop_audit_existing(_, _, _)
evaluate_loop_audit_existing(d, order, acc) ==
    IF order = <<>> THEN acc
    ELSE LET r  == Head(order)
             ex == existing_alert(acc.alerts, d, r)
         IN  IF ~rule_evaluate(r, d)
               THEN evaluate_loop_audit_existing(d, Tail(order), acc)
             ELSE IF ex # NoAlert
               THEN evaluate_loop_audit_existing(d, Tail(order),
                        [acc EXCEPT !.result = Append(@, ex),
                                    !.audit = create_audit_event(@, "alert_event_created", ex)])
             ELSE evaluate_loop_audit_existing(d, Tail(order),
                      [alerts |-> Append(acc.alerts, new_alert(d, r)),
                       audit  |-> create_audit_event(acc.audit, "alert_event_created",
                                                     Len(acc.alerts) + 1),
                       result |-> Append(acc.result, Len(acc.alerts) + 1)])

\* A loop that puts an AlertEvent it finds back to 'pending'.
RECURSIVE evaluate_loop_reset_existing(_, _, _)
evaluate_loop_reset_existing(d, order, acc) ==
    IF order = <<>> THEN acc
    ELSE LET r  == Head(order)
             ex == existing_alert(acc.alerts, d, r)
         IN  IF ~rule_evaluate(r, d)
               THEN evaluate_loop_reset_existing(d, Tail(order), acc)
             ELSE IF ex # NoAlert
               THEN evaluate_loop_reset_existing(d, Tail(order),
                        [acc EXCEPT !.result = Append(@, ex),
                                    !.alerts[ex].status = "pending"])
             ELSE evaluate_loop_reset_existing(d, Tail(order),
                      [alerts |-> Append(acc.alerts, new_alert(d, r)),
                       audit  |-> create_audit_event(acc.audit, "alert_event_created",
                                                     Len(acc.alerts) + 1),
                       result |-> Append(acc.result, Len(acc.alerts) + 1)])

\* The body of "for rule in alert_rules": acc carries the AlertEvent table,
\* the audit table and the list being returned.
RECURSIVE evaluate_loop(_, _, _)
evaluate_loop(d, order, acc) ==
    IF order = <<>> THEN acc
    ELSE LET r  == Head(order)
             ex == existing_alert(acc.alerts, d, r)
         IN  IF ~rule_evaluate(r, d)
               THEN evaluate_loop(d, Tail(order), acc)
             ELSE IF ex # NoAlert
               THEN evaluate_loop(d, Tail(order),
                                  [acc EXCEPT !.result = Append(@, ex)])
             ELSE evaluate_loop(d, Tail(order),
                      [alerts |-> Append(acc.alerts, new_alert(d, r)),
                       audit  |-> create_audit_event(acc.audit, "alert_event_created",
                                                     Len(acc.alerts) + 1),
                       result |-> Append(acc.result, Len(acc.alerts) + 1)])

\* evaluate_drift_event(drift_event), the enabled rules of the customer
\* iterated in the given order.
evaluate_drift_event(d, order, db, au) ==
    evaluate_loop(d, order, [alerts |-> db, audit |-> au, result |-> <<>>])

(***************************************************************************)
(* _is_suppressed                                                          *)
(***************************************************************************)
NoEvidence == [product_name |-> "", signal_type |-> "", entity_label |-> ""]

\* build_driftwatch_evidence_payload(drift_event, [drift_event]): the fields
\* of the evidence that the suppression check reads.
build_driftwatch_evidence_payload(d) ==
    [product_name |-> "DriftWatch",
     signal_type  |-> DriftEvents[d].drift_type,
     entity_label |-> DriftEvents[d].payer]

\* A suppression check that does not compare the entity label.
is_suppressed_any_entity(customer, evidence_payload, db, t) ==
    IF evidence_payload = NoEvidence THEN FALSE
    ELSE LET window_start == t - ALERT_SUPPRESSION_COOLDOWN
         IN  \E i \in 1..Len(db) :
                /\ db[i].customer = customer
                /\ db[i].status = "sent"
                /\ db[i].notification_sent_at # NoTime
                /\ db[i].notification_sent_at >= window_start
                /\ db[i].payload.product_name = evidence_payload.product_name
                /\ db[i].payload.signal_type = evidence_payload.signal_type

\* A suppression check whose window never closes.
is_suppressed_no_window(customer, evidence_payload, db, t) ==
    IF evidence_payload = NoEvidence THEN FALSE
    ELSE \E i \in 1..Len(db) :
            /\ db[i].customer = customer
            /\ db[i].status = "sent"
            /\ db[i].notification_sent_at # NoTime
            /\ db[i].payload.product_name = evidence_payload.product_name
            /\ db[i].payload.signal_type = evidence_payload.signal_type
            /\ db[i].payload.entity_label = evidence_payload.entity_label

is_suppressed(customer, evidence_payload, db, t) ==
    IF evidence_payload = NoEvidence THEN FALSE
    ELSE LET window_start == t - ALERT_SUPPRESSION_COOLDOWN
         IN  \E i \in 1..Len(db) :
                /\ db[i].customer = customer
                /\ db[i].status = "sent"
                /\ db[i].notification_sent_at # NoTime
                /\ db[i].notification_sent_at >= window_start
                /\ db[i].payload.product_name = evidence_payload.product_name
                /\ db[i].payload.signal_type = evidence_payload.signal_type
                /\ db[i].payload.entity_label = evidence_payload.entity_label

(***************************************************************************)
(* Channel senders                                                         *)
(***************************************************************************)
\* What a sender meets outside the program: the transport takes the message
\* ("ok", "pdf_fail") or not ("fail"), and for an email the lookup, generation
\* or reading of the PDF attachment works or raises ("pdf_fail").  When the
\* transport fails the attachment makes no difference to the call.
Outcomes == {"ok", "fail", "pdf_fail"}

transport_ok(o) == o \in {"ok", "pdf_fail"}

pdf_ok(o) == o # "pdf_fail"

\* What a sender did: kind "ret" (it returned value), "raise" (it raised) or
\* "skip" (webhook: success is left alone); invoked tells whether the
\* transport was called, accepted whether it took the message, bare whether
\* the message went out without its attachment.
Answer(kind, value, invoked, accepted, bare) ==
    [kind |-> kind, value |-> value, invoked |-> invoked, accepted |-> accepted, bare |-> bare]

\* An email sender in which a failure of the PDF attachment is not caught.
send_email_with_pdf_uncaught(o) ==
    IF ~pdf_ok(o) THEN Answer("raise", FALSE, FALSE, FALSE, FALSE)
    ELSE IF transport_ok(o) THEN Answer("ret", TRUE, TRUE, TRUE, FALSE)
    ELSE Answer("raise", FALSE, TRUE, FALSE, FALSE)

\* _send_email_with_pdf: a failure of the attachment is caught and logged,
\* then email.send(fail_silently=False) sends or raises.
send_email_with_pdf(o) ==
    IF transport_ok(o) THEN Answer("ret", TRUE, TRUE, TRUE, ~pdf_ok(o))
    ELSE Answer("raise", FALSE, TRUE, FALSE, FALSE)

\* send_slack_notification: a no-op reporting success when SLACK_ENABLED is
\* off, False without a webhook_url, on a non-200 answer or on an exception.
send_slack_notification(has_target, o) ==
    IF ~cfg.slack_enabled THEN Answer("ret", TRUE, FALSE, FALSE, FALSE)
    ELSE IF ~has_target THEN Answer("ret", FALSE, FALSE, FALSE, FALSE)
    ELSE IF transport_ok(o) THEN Answer("ret", TRUE, TRUE, TRUE, FALSE)
    ELSE Answer("ret", FALSE, TRUE, FALSE, FALSE)

\* What one iteration of "for channel in channels" does for channel ch when
\* the outside answers o.
send_channel(ch, o) ==
    LET c == Channels[ch] IN
    CASE c.channel_type = "email" ->
           IF ~c.has_target THEN Answer("ret", FALSE, FALSE, FALSE, FALSE)
           ELSE send_email_with_pdf(o)
      [] c.channel_type = "slack" -> send_slack_notification(c.has_target, o)
      [] OTHER -> Answer("skip", FALSE, FALSE, FALSE, FALSE)

\* send_default_email_notification: _send_email_with_pdf to DEFAULT_ALERT_EMAIL
send_default_email_notification(o) == send_email_with_pdf(o)

\* The channels send_alert_notification iterates for an alert of this rule
\* and customer.
channels_in(w, rule, customer) ==
    IF w.routing[rule] # {}
      THEN w.routing[rule] \cap w.enabled
    ELSE { ch \in w.enabled : Channels[ch].customer = customer }

resolve_channels(rule, customer) == channels_in(cfg, rule, customer)

NoDispatch == [success |-> FALSE, raised |-> FALSE, invoked |-> {}, accepted |-> {},
               succeeded |-> {}, attempted |-> {}, bare |-> {}]

\* One sender's answer folded into the state of the try block.
apply_sender(acc, ch, r) ==
    [success  |-> IF r.kind = "ret" THEN r.value ELSE acc.success,
     raised   |-> r.kind = "raise",
     invoked  |-> IF r.invoked THEN acc.invoked \cup {ch} ELSE acc.invoked,
     accepted |-> IF r.accepted THEN acc.accepted \cup {ch} ELSE acc.accepted,
     succeeded |-> IF r.kind = "ret" /\ r.value THEN acc.succeeded \cup {ch} ELSE acc.succeeded,
     attempted |-> IF r.kind # "skip" THEN acc.attempted \cup {ch} ELSE acc.attempted,
     bare |-> IF r.bare THEN acc.bare \cup {ch} ELSE acc.bare]

\* "for channel in channels": success is assigned by every email and slack
\* sender in turn; an exception leaves the loop.
RECURSIVE dispatch_loop(_, _, _)
dispatch_loop(order, out, acc) ==
    IF order = <<>> \/ acc.raised THEN acc
    ELSE dispatch_loop(Tail(order), out,
                       apply_sender(acc, Head(order), send_channel(Head(order), out[Head(order)])))

\* The try block up to "if success": the loop, then the default email when
\* the channel queryset is empty.
dispatch(order, out) ==
    LET looped == dispatch_loop(order, out, NoDispatch)
    IN  IF ~looped.raised /\ order = <<>>
          THEN apply_sender(looped, DefaultEmail, send_default_email_notification(out[DefaultEmail]))
        ELSE looped

(***************************************************************************)
(* send_alert_notification                                                 *)
(***************************************************************************)
\* A suppressed branch that marks the alert sent without the marker.
on_suppressed_unmarked(obj, t) ==
    [obj EXCEPT !.status = "sent", !.notification_sent_at = t]

\* The suppressed branch: the row alert_event.save() writes.
on_suppressed(obj, t) ==
    [obj EXCEPT !.status = "sent", !.notification_sent_at = t, !.error_message = "suppressed"]

\* An "if success" branch that stamps the alert and leaves its status.
on_success_keep_status(obj, t) == [obj EXCEPT !.notification_sent_at = t]

\* The "if success" branch.
on_success(obj, t) ==
    [obj EXCEPT !.status = "sent", !.notification_sent_at = t, !.error_message = "none"]

\* An except branch that records the message and leaves the status alone.
on_exception_keep_status(obj, msg) == [obj EXCEPT !.error_message = msg]

\* The "except Exception as e" branch, error_message = str(e).
on_exception(obj, msg) ==
    [obj EXCEPT !.status = "failed", !.error_message = msg]

ExceptionText == "smtp_error"

\* The bag of <<alert, channel>> deliveries after the transports in chs
\* accepted alert a.
record_deliveries(dl, a, chs) == dl (+) SetToBag({ <<a, ch>> : ch \in chs })

\* The call from "success = False" on: the try block and the branch taken
\* after it.  a is the id, obj the caller's in-memory AlertEvent, order the
\* iteration order of the channel queryset, out the answer of each
\* transport, db/au/dl the tables, t the clock.
send_dispatch(a, obj, order, out, db, au, dl, t) ==
    LET d == dispatch(order, out)
        seen == [delivered |-> record_deliveries(dl, a, d.accepted),
                 raised |-> d.raised, invoked |-> d.invoked, succeeded |-> d.succeeded,
                 attempted |-> d.attempted, bare |-> d.bare, dispatched |-> TRUE]
    IN  IF d.raised
          THEN seen @@ [alerts |-> [db EXCEPT ![a] = on_exception(obj, ExceptionText)],
                        audit |-> create_audit_event(au, "alert_event_failed", a),
                        ret |-> FALSE]
        ELSE IF d.success
          THEN seen @@ [alerts |-> [db EXCEPT ![a] = on_success(obj, t)],
                        audit |-> create_audit_event(au, "alert_event_sent", a),
                        ret |-> TRUE]
        ELSE seen @@ [alerts |-> db, audit |-> au, ret |-> FALSE]

\* A call that touches no transport and returns ret.
send_quiet(db, au, dl, ret) ==
    [alerts |-> db, audit |-> au, delivered |-> dl, raised |-> FALSE, invoked |-> {},
     succeeded |-> {}, attempted |-> {}, bare |-> {}, dispatched |-> FALSE, ret |-> ret]

\* The call past the two status checks: the suppression check, then the dispatch.
send_pending(a, obj, order, out, db, au, dl, t) ==
    IF is_suppressed(obj.customer, build_driftwatch_evidence_payload(obj.drift_event), db, t)
      THEN send_quiet([db EXCEPT ![a] = on_suppressed(obj, t)], au, dl, TRUE)
    ELSE send_dispatch(a, obj, order, out, db, au, dl, t)

\* A send that treats a failed alert like a pending one.
send_alert_notification_retry_failed(a, obj, order, out, db, au, dl, t) ==
    IF obj.status = "sent" THEN send_quiet(db, au, dl, TRUE)
    ELSE send_pending(a, obj, order, out, db, au, dl, t)

\* send_alert_notification(alert_event)
send_alert_notification(a, obj, order, out, db, au, dl, t) ==
    IF obj.status = "sent" THEN send_quiet(db, au, dl, TRUE)
    ELSE IF obj.status = "failed" THEN send_quiet(db, au, dl, FALSE)
    ELSE send_pending(a, obj, order, out, db, au, dl, t)

\* The outcomes the sender of channel ch can tell apart: an email sender
\* with recipients meets the attachment and the transport, a Slack sender the
\* transport only, the others nothing.
outcomes_of(ch) ==
    IF ch = DefaultEmail THEN Outcomes
    ELSE IF Channels[ch].channel_type = "email" /\ Channels[ch].has_target THEN Outcomes
    ELSE IF Channels[ch].channel_type = "slack" THEN {"ok", "fail"}
    ELSE {"ok"}

\* What a call on obj may meet: one outcome per resolved channel, or the
\* outcome of the default email when there is none.
outcome_space(obj) ==
    LET chs == resolve_channels(obj.alert_rule, obj.customer)
        tried == IF chs = {} THEN {DefaultEmail} ELSE chs
    IN  {out \in [tried -> Outcomes] : \A ch \in tried : out[ch] \in outcomes_of(ch)}

\* What a caller sees of a call: the alert, its status going in, the value
\* returned, whether the dispatch loop was reached, whether a sender raised,
\* the transports called, the senders that returned True, the channels
\* whose sender was called and those whose email went out without attachment.
send_record(a, obj, res) ==
    [alert |-> a, pre |-> obj.status, ret |-> res.ret, dispatched |-> res.dispatched,
     raised |-> res.raised, invoked |-> res.invoked, succeeded |-> res.succeeded,
     attempted |-> res.attempted, bare |-> res.bare]

NoSend == [alert |-> NoAlert, pre |-> "none", ret |-> FALSE, dispatched |-> FALSE,
           raised |-> FALSE, invoked |-> {}, succeeded |-> {}, attempted |-> {},
           bare |-> {}]

NotEvaluated == <<NoAlert>>

\* What a caller sees of an evaluate_drift_event call: the signal, the order
\* in which the rule queryset was iterated, the list returned, and whether
\* the signal had been evaluated before.
NoEval == [d |-> "none", order |-> <<>>, result |-> <<>>, again |-> FALSE]

\* Deliveries of alert a through channel ch so far.
deliveries(dl, a, ch) == IF <<a, ch>> \in DOMAIN dl THEN dl[<<a, ch>>] ELSE 0

\* The model stops re-sending an alert once a channel has taken it MaxDeliver times.
may_dispatch(a) == \A ch \in ChannelIds \cup {DefaultEmail} : deliveries(delivered, a, ch) < MaxDeliver

(***************************************************************************)
(* BaseDriftDetectionService (src/upstream/services/base_drift_detection). *)
(* Dates are day numbers.                                                  *)
(***************************************************************************)
\* timezone.now().date()
Today == 200

\* The start_date and end_date arguments a caller passes to compute().
StartDates == {NoDate, 100, 195, 205}
EndDates == {NoDate, 190, 200}

Max2(x, y) == IF x >= y THEN x ELSE y

\* _compute_time_windows(start_date, end_date): <<baseline_window, current_window>>
compute_time_windows(start_date, end_date) ==
    LET end_d         == IF end_date = NoDate THEN Today ELSE end_date
        start_d       == IF start_date = NoDate
                           THEN end_d - (DEFAULT_BASELINE_DAYS + DEFAULT_CURRENT_DAYS)
                         ELSE start_date
        current_end   == end_d
        current_start == Max2(start_d, current_end - DEFAULT_CURRENT_DAYS)
        baseline_end  == current_start
        baseline_start == Max2(start_d, baseline_end - DEFAULT_BASELINE_DAYS)
    IN  <<[start |-> baseline_start, end |-> baseline_end],
          [start |-> current_start, end |-> current_end]>>

NoWindow == [start |-> NoDate, end |-> NoDate]

\* The n rows of one kind that a step of run r writes.
rows_written(kind, r, n) == { [kind |-> kind, run |-> r, k |-> i] : i \in 1..n }

\* A body that detects signals before it computes aggregates.
ComputeStepsSignalsFirst == <<"signals", "aggregates", "publish">>

\* The body of "with transaction.atomic()": the calls in program order.
ComputeSteps == <<"aggregates", "signals", "publish">>

\* An exit that commits what was written whether or not the body raised.
atomic_exit_autocommit(rows, tx, exc, commit_ok) ==
    IF ~commit_ok THEN rows ELSE rows \cup tx

\* transaction.atomic().__exit__: the committed rows after the block, given
\* the rows it wrote, whether it raised, and whether the commit went through.
atomic_exit(rows, tx, exc, commit_ok) ==
    IF exc \/ ~commit_ok THEN rows ELSE rows \cup tx

IdleCompute == [pc |-> "idle", run |-> 0, args |-> [start_date |-> NoDate, end_date |-> NoDate],
                baseline |-> NoWindow, current |-> NoWindow, log |-> <<>>, tx |-> {},
                exc |-> FALSE, aggregates_created |-> 0, signals_created |-> 0]

(***************************************************************************)
(* Scoring helpers of BaseDriftDetectionService.  Magnitudes, thresholds   *)
(* and z-scores are counted in hundredths; fractions are exact <<n, d>>.   *)
(***************************************************************************)
SeverityKeys == {"critical", "high", "medium"}

ThresholdValues == {5, 10, 20, 30}

\* The thresholds dicts a caller may pass: any of the keys, any values.
ThresholdDicts == UNION { [K -> ThresholdValues] : K \in SUBSET SeverityKeys }

Magnitudes == {-10, 0, 5, 9, 10, 19, 20, 29, 30, 35}

\* dict.get(key, default)
dict_get(dict, key, default) == IF key \in DOMAIN dict THEN dict[key] ELSE default

\* A categorisation that tests the lowest threshold first.
categorize_severity_lowest_first(delta_magnitude, thresholds) ==
    IF delta_magnitude >= dict_get(thresholds, "medium", DefaultMedium) THEN "medium"
    ELSE IF delta_magnitude >= dict_get(thresholds, "high", DefaultHigh) THEN "high"
    ELSE IF delta_magnitude >= dict_get(thresholds, "critical", DefaultCritical) THEN "critical"
    ELSE "low"

\* BaseDriftDetectionService.categorize_severity
categorize_severity(delta_magnitude, thresholds) ==
    IF delta_magnitude >= dict_get(thresholds, "critical", DefaultCritical) THEN "critical"
    ELSE IF delta_magnitude >= dict_get(thresholds, "high", DefaultHigh) THEN "high"
    ELSE IF delta_magnitude >= dict_get(thresholds, "medium", DefaultMedium) THEN "medium"
    ELSE "low"

RECURSIVE GCD(_, _)
GCD(a, b) == IF b = 0 THEN a ELSE GCD(b, a % b)

Abs(x) == IF x < 0 THEN -x ELSE x

\* The fraction n/d in lowest terms, d > 0.
Frac(n, d) ==
    LET g == GCD(Abs(n), Abs(d))
        s == IF d < 0 THEN -1 ELSE 1
    IN  <<(s * n) \div g, (s * d) \div g>>

FracAdd(x, y) == Frac(x[1] * y[2] + y[1] * x[2], x[2] * y[2])

FracMul(x, y) == Frac(x[1] * y[1], x[2] * y[2])

FracDiv(x, y) == Frac(x[1] * y[2], x[2] * y[1])

FracLeq(x, y) == x[1] * y[2] <= y[1] * x[2]

FracMin(x, y) == IF FracLeq(y, x) /\ ~FracLeq(x, y) THEN y ELSE x

FracAbs(x) == <<Abs(x[1]), x[2]>>

RECURSIVE Pow10(_)
Pow10(k) == IF k = 0 THEN 1 ELSE 10 * Pow10(k - 1)

\* Decimal(str(x)): the decimal nearest to x, in units of 10^-DecimalPlaces.
to_decimal(x) == (2 * x[1] * Pow10(DecimalPlaces) + x[2]) \div (2 * x[2])

DecimalOne == Pow10(DecimalPlaces)

SampleSizes == 0..MaxSample

ZScores == {-300, -196, -98, -1, 0, 1, 98, 195, 196, 197, 300}

\* A score that takes the z-score with its sign.
compute_confidence_score_signed(sample_size, z_score, min_sample_size) ==
    LET sample_factor == FracMul(FracMin(Frac(sample_size, min_sample_size * 2), Frac(1, 1)),
                                 Frac(1, 2))
        z_threshold == Frac(Z_THRESHOLD, 100)
        significance_factor == FracMul(FracMin(FracDiv(Frac(z_score, 100), z_threshold),
                                               Frac(1, 1)),
                                       Frac(1, 2))
        confidence == to_decimal(FracAdd(sample_factor, significance_factor))
    IN  IF confidence < DecimalOne THEN confidence ELSE DecimalOne

\* BaseDriftDetectionService.compute_confidence_score; z_score in hundredths,
\* the result in units of 10^-DecimalPlaces.
compute_confidence_score(sample_size, z_score, min_sample_size) ==
    LET sample_factor == FracMul(FracMin(Frac(sample_size, min_sample_size * 2), Frac(1, 1)),
                                 Frac(1, 2))
        z_threshold == Frac(Z_THRESHOLD, 100)
        significance_factor == FracMul(FracMin(FracDiv(FracAbs(Frac(z_score, 100)), z_threshold),
                                               Frac(1, 1)),
                                       Frac(1, 2))
        confidence == to_decimal(FracAdd(sample_factor, significance_factor))
    IN  IF confidence < DecimalOne THEN confidence ELSE DecimalOne

NoCall == [m |-> 0, result |-> "none"]

NoConfidence == [sample_size |-> -1, z_score |-> 0, result |-> -1]

NoScore == [thresholds |-> <<>>, prev |-> NoCall, last |-> NoCall, conf |-> NoConfidence]

(***************************************************************************)
(* The upstream_driftevent table and its unique index.                     *)
(***************************************************************************)
Null == "NULL"

IdentityColumns == {"customer", "report_run", "payer", "cpt_group", "drift_type"}

\* The identity tuples of the model: signals of a payer (cpt_group NULL) or
\* of one CPT group of the payer.
SignalRows ==
    [customer : Customers, report_run : {"run1", "run2"}, payer : {"PayerA"},
     cpt_group : {Null, "Office Visits"}, drift_type : {"denial_rate", "avg_decision_time"}]

\* A unique index under which NULL equals NULL.
unique_index_conflict_nulls_equal(table, row) ==
    \E i \in 1..Len(table) : \A col \in IdentityColumns : table[i][col] = row[col]

\* CREATE UNIQUE INDEX driftevent_signal_uniq_idx: an insert conflicts with a
\* stored row that equals it on every indexed column; a NULL equals nothing.
unique_index_conflict(table, row) ==
    \E i \in 1..Len(table) :
        \A col \in IdentityColumns :
            /\ table[i][col] # Null
            /\ row[col] # Null
            /\ table[i][col] = row[col]

NoInsert == [row |-> <<>>, rejected |-> FALSE]

EmptyTable == [rows |-> <<>>, last |-> NoInsert]

(***************************************************************************)
(* State machine: one caller at a time.                                    *)
(***************************************************************************)
Workers == {"w1", "w2"}

NoObject == [status |-> "none"]

IdleWorker == [pc |-> "idle", d |-> "none", rules |-> <<>>, result |-> <<>>,
               a |-> NoAlert, obj |-> NoObject, invoked |-> FALSE, overlap |-> FALSE]

\* The verdict an operator records.  No code of the pipeline reads a
\* judgment; the noise-pattern rule is about 'noise' verdicts only.
Verdicts == {"noise"}

\* process_pending_alerts between runs.  total, sent and failed are its
\* results; start is the queryset it fetched, todo what is left of it, called
\* the alerts it has called send_alert_notification on, trues the calls that
\* returned True and escaped the calls that raised.
IdleBatch == [running |-> FALSE, todo |-> {}, start |-> {}, total |-> 0, sent |-> 0, failed |-> 0,
              called |-> {}, trues |-> 0, escaped |-> 0]

\* A loop body that counts nothing for a call that raised.
process_count_drop_raised(b, outcome) ==
    [b EXCEPT !.sent   = IF outcome = "true" THEN @ + 1 ELSE @,
              !.failed = IF outcome = "false" THEN @ + 1 ELSE @]

\* The body of the loop of process_pending_alerts: the counters after a call
\* that returned True ("true"), returned False ("false") or raised ("raised").
process_count(b, outcome) ==
    [b EXCEPT !.sent   = IF outcome = "true" THEN @ + 1 ELSE @,
              !.failed = IF outcome \in {"false", "raised"} THEN @ + 1 ELSE @]

Init ==
    /\ cfg \in Worlds
    /\ now = 0
    /\ alerts = <<>>
    /\ audit = EmptyBag
    /\ delivered = EmptyBag
    /\ firstResult = [d \in DriftIds |-> NotEvaluated]
    /\ lastEval = NoEval
    /\ lastSend = NoSend
    /\ batch = IdleBatch
    /\ judgments = EmptyBag
    /\ store = [rows |-> {}, runs |-> 0]
    /\ dd = IdleCompute
    /\ wk = [w \in Workers |-> IdleWorker]
    /\ de = EmptyTable
    /\ sc = NoScore

\* A caller runs evaluate_drift_event(d).
Evaluate(d) ==
    /\ ~batch.running
    /\ d \in cfg.signals
    /\ \E order \in Perms(enabled_rules(DriftEvents[d].customer)) :
         LET res == evaluate_drift_event(d, order, alerts, audit) IN
           /\ alerts' = res.alerts
           /\ audit' = res.audit
           /\ firstResult' = IF firstResult[d] = NotEvaluated
                               THEN [firstResult EXCEPT ![d] = res.result]
                             ELSE firstResult
           /\ lastEval' = [d |-> d, order |-> order, result |-> res.result,
                           again |-> firstResult[d] # NotEvaluated]
    /\ lastSend' = NoSend
    /\ UNCHANGED <<cfg, judgments, store, dd, de, sc, now, delivered, batch, wk>>

\* A caller fetches AlertEvent a and runs send_alert_notification on it: the
\* call returns, or, past the two status checks, raises before its dispatch
\* and leaves everything as it was.
Send(a) ==
    /\ ~batch.running
    /\ may_dispatch(a)
    /\ \/ LET obj == alerts[a] IN
          \E order \in Perms(resolve_channels(obj.alert_rule, obj.customer)) :
          \E out \in outcome_space(obj) :
            LET res == send_alert_notification(a, obj, order, out, alerts, audit, delivered, now) IN
              /\ alerts' = res.alerts
              /\ audit' = res.audit
              /\ delivered' = res.delivered
              /\ lastSend' = send_record(a, obj, res)
       \/ /\ alerts[a].status \notin {"sent", "failed"}
          /\ lastSend' = NoSend
          /\ UNCHANGED <<alerts, audit, delivered>>
    /\ lastEval' = NoEval
    /\ UNCHANGED <<cfg, judgments, store, dd, de, sc, now, firstResult, batch, wk>>

\* process_pending_alerts: the queryset of pending alerts is counted and fetched.
ProcessBegin ==
    /\ ~batch.running
    /\ LET pending == { a \in AlertIds : alerts[a].status = "pending" } IN
         /\ \A a \in pending : may_dispatch(a)
         /\ batch' = [IdleBatch EXCEPT !.running = TRUE, !.todo = pending, !.start = pending,
                                        !.total = Cardinality(pending)]
    /\ lastEval' = NoEval
    /\ lastSend' = NoSend
    /\ UNCHANGED <<cfg, judgments, store, dd, de, sc, now, alerts, audit, delivered, firstResult, wk>>

\* One iteration of its loop: send_alert_notification on an alert that was
\* fetched as pending returns, or raises before its dispatch.
ProcessStep(a) ==
    /\ batch.running
    /\ a \in batch.todo
    /\ \/ LET obj == [alerts[a] EXCEPT !.status = "pending"] IN
          \E order \in Perms(resolve_channels(obj.alert_rule, obj.customer)) :
          \E out \in outcome_space(obj) :
            LET res == send_alert_notification(a, obj, order, out, alerts, audit, delivered, now) IN
              /\ alerts' = res.alerts
              /\ audit' = res.audit
              /\ delivered' = res.delivered
              /\ lastSend' = send_record(a, obj, res)
              /\ batch' = [process_count(batch, IF res.ret THEN "true" ELSE "false")
                             EXCEPT !.todo = @ \ {a}, !.called = @ \cup {a},
                                    !.trues = IF res.ret THEN @ + 1 ELSE @]
       \/ /\ batch' = [process_count(batch, "raised")
                         EXCEPT !.todo = @ \ {a}, !.called = @ \cup {a}, !.escaped = @ + 1]
          /\ lastSend' = NoSend
          /\ UNCHANGED <<alerts, audit, delivered>>
    /\ lastEval' = NoEval
    /\ UNCHANGED <<cfg, judgments, store, dd, de, sc, now, firstResult, wk>>

\* It returns its counters.
ProcessEnd ==
    /\ batch.running
    /\ batch.todo = {}
    /\ batch' = IdleBatch
    /\ lastEval' = NoEval
    /\ lastSend' = NoSend
    /\ UNCHANGED <<cfg, judgments, store, dd, de, sc, now, alerts, audit, delivered, firstResult, wk>>

\* An operator resolves a notified alert with a judgment, or adds a judgment
\* to a resolved one.
Judge(a, verdict) ==
    /\ ~batch.running
    /\ cfg.feedback
    /\ alerts[a].status \in {"sent", "resolved"}
    /\ BagCardinality(judgments) < MaxJudgments
    /\ alerts' = [alerts EXCEPT ![a].status = "resolved"]
    /\ judgments' = judgments (+) SetToBag({<<a, verdict>>})
    /\ lastEval' = NoEval
    /\ lastSend' = NoSend
    /\ UNCHANGED <<cfg, now, audit, delivered, firstResult, batch, store, dd, de, sc, wk>>

\* Time passes between calls.
Tick ==
    /\ ~batch.running
    /\ \E s \in TickSteps :
         /\ now + s <= MaxTime
         /\ now' = now + s
    /\ lastEval' = NoEval
    /\ lastSend' = NoSend
    /\ UNCHANGED <<cfg, judgments, store, dd, de, sc, alerts, audit, delivered, firstResult, batch, wk>>

Next ==
    \/ \E d \in DriftIds : Evaluate(d)
    \/ \E a \in AlertIds : Send(a)
    \/ ProcessBegin
    \/ \E a \in AlertIds : ProcessStep(a)
    \/ ProcessEnd
    \/ \E a \in AlertIds, verdict \in Verdicts : Judge(a, verdict)
    \/ Tick

Spec == Init /\ [][Next]_vars

(***************************************************************************)
(* State machine: two callers at once, each call advancing one database    *)
(* operation at a time.                                                    *)
(***************************************************************************)
seq_unchanged == UNCHANGED <<cfg, judgments, store, dd, de, sc, now, firstResult, lastEval, lastSend, batch>>

\* evaluate_drift_event(d) starts: the rule queryset is fetched.
CEvalBegin(w, d) ==
    /\ wk[w].pc = "idle"
    /\ d \in cfg.signals
    /\ \E order \in Perms(enabled_rules(DriftEvents[d].customer)) :
         wk' = [wk EXCEPT ![w] = [IdleWorker EXCEPT !.pc = "eval", !.d = d, !.rules = order]]
    /\ UNCHANGED <<alerts, audit, delivered>>
    /\ seq_unchanged

\* One rule of the loop: rule.evaluate, then the lookup of an existing AlertEvent.
CEvalCheck(w) ==
    /\ wk[w].pc = "eval"
    /\ wk[w].rules # <<>>
    /\ LET r  == Head(wk[w].rules)
           ex == existing_alert(alerts, wk[w].d, r)
       IN  wk' = [wk EXCEPT ![w] =
                    IF ~rule_evaluate(r, wk[w].d)
                      THEN [@ EXCEPT !.rules = Tail(@)]
                    ELSE IF ex # NoAlert
                      THEN [@ EXCEPT !.rules = Tail(@), !.result = Append(@, ex)]
                    ELSE [@ EXCEPT !.pc = "create"]]
    /\ UNCHANGED <<alerts, audit, delivered>>
    /\ seq_unchanged

\* AlertEvent.objects.create and its audit event, for the rule just looked up.
CEvalCreate(w) ==
    /\ wk[w].pc = "create"
    /\ alerts' = Append(alerts, new_alert(wk[w].d, Head(wk[w].rules)))
    /\ audit' = create_audit_event(audit, "alert_event_created", Len(alerts) + 1)
    /\ wk' = [wk EXCEPT ![w] = [@ EXCEPT !.pc = "eval", !.rules = Tail(@),
                                          !.result = Append(@, Len(alerts) + 1)]]
    /\ UNCHANGED delivered
    /\ seq_unchanged

\* evaluate_drift_event returns.
CEvalReturn(w) ==
    /\ wk[w].pc = "eval"
    /\ wk[w].rules = <<>>
    /\ wk' = [wk EXCEPT ![w] = IdleWorker]
    /\ UNCHANGED <<alerts, audit, delivered>>
    /\ seq_unchanged

\* send_alert_notification on a freshly fetched AlertEvent, up to the
\* suppression check: it returns at once for a sent, failed or suppressed
\* alert and otherwise stands before the dispatch loop.
CSendBegin(w, a) ==
    /\ wk[w].pc = "idle"
    /\ may_dispatch(a)
    /\ LET obj == alerts[a]
           others == { v \in Workers \ {w} : wk[v].pc = "dispatch" /\ wk[v].a = a }
       IN  IF obj.status \in {"sent", "failed"}
             THEN /\ wk' = [wk EXCEPT ![w] = [IdleWorker EXCEPT !.a = a]]
                  /\ UNCHANGED alerts
           ELSE IF is_suppressed(obj.customer,
                                 build_driftwatch_evidence_payload(obj.drift_event), alerts, now)
             THEN /\ wk' = [wk EXCEPT ![w] = [IdleWorker EXCEPT !.a = a]]
                  /\ alerts' = [alerts EXCEPT ![a] = on_suppressed(obj, now)]
           ELSE /\ wk' = [v \in Workers |->
                            IF v = w THEN [IdleWorker EXCEPT !.pc = "dispatch", !.a = a, !.obj = obj,
                                                             !.overlap = others # {}]
                            ELSE IF v \in others THEN [wk[v] EXCEPT !.overlap = TRUE]
                            ELSE wk[v]]
                /\ UNCHANGED alerts
    /\ UNCHANGED <<audit, delivered>>
    /\ seq_unchanged

\* The dispatch loop and the save that follows it.
CSendDispatch(w) ==
    /\ wk[w].pc = "dispatch"
    /\ LET a == wk[w].a
           obj == wk[w].obj
       IN  \E order \in Perms(resolve_channels(obj.alert_rule, obj.customer)) :
           \E out \in outcome_space(obj) :
             LET res == send_dispatch(a, obj, order, out, alerts, audit, delivered, now) IN
               /\ alerts' = res.alerts
               /\ audit' = res.audit
               /\ delivered' = res.delivered
               /\ wk' = [wk EXCEPT ![w] = [IdleWorker EXCEPT !.a = a,
                                                             !.invoked = res.invoked # {},
                                                             !.overlap = wk[w].overlap]]
    /\ seq_unchanged

(***************************************************************************)
(* State machine: drift computation runs.                                  *)
(***************************************************************************)
alert_unchanged ==
    UNCHANGED <<cfg, now, alerts, audit, delivered, firstResult, lastEval, lastSend, batch,
                judgments, wk, de, sc>>

\* The step of the atomic block that runs next, "none" outside the block.
next_step ==
    IF dd.pc = "run" /\ Len(dd.log) < Len(ComputeSteps)
      THEN ComputeSteps[Len(dd.log) + 1] ELSE "none"

\* Where the block stands after a step that raised or not.
after_step(raised) ==
    IF raised \/ Len(dd.log) + 1 = Len(ComputeSteps) THEN "exit" ELSE "run"

\* compute(start_date, end_date) is called: the windows are computed and the
\* transaction is opened.
ComputeBegin(start_date, end_date) ==
    /\ dd.pc \in {"idle", "returned", "raised"}
    /\ store.runs < MaxRuns
    /\ LET w == compute_time_windows(start_date, end_date) IN
         dd' = [IdleCompute EXCEPT !.pc = "run", !.run = store.runs + 1,
                                   !.args = [start_date |-> start_date, end_date |-> end_date],
                                   !.baseline = w[1], !.current = w[2]]
    /\ store' = [store EXCEPT !.runs = @ + 1]
    /\ alert_unchanged

\* self._compute_aggregates(...): it writes n aggregate rows and returns, or
\* raises after writing them.
ComputeAggregates ==
    /\ next_step = "aggregates"
    /\ \E n \in 0..MaxRows, raised \in BOOLEAN :
         dd' = [dd EXCEPT !.tx = @ \cup rows_written("aggregate", dd.run, n),
                          !.log = Append(@, "aggregates"),
                          !.aggregates_created = IF raised THEN @ ELSE n,
                          !.exc = raised,
                          !.pc = after_step(raised)]
    /\ UNCHANGED store
    /\ alert_unchanged

\* self._detect_signals(...): it writes n signal rows and returns, or raises
\* after writing them.
DetectSignals ==
    /\ next_step = "signals"
    /\ \E n \in 0..MaxRows, raised \in BOOLEAN :
         dd' = [dd EXCEPT !.tx = @ \cup rows_written("signal", dd.run, n),
                          !.log = Append(@, "signals"),
                          !.signals_created = IF raised THEN @ ELSE n,
                          !.exc = raised,
                          !.pc = after_step(raised)]
    /\ UNCHANGED store
    /\ alert_unchanged

\* self._publish_computation_event(...): publish_event writes one event row,
\* or raises without writing it.
PublishComputationEvent ==
    /\ next_step = "publish"
    /\ \E raised \in BOOLEAN :
         dd' = [dd EXCEPT !.tx = IF raised THEN @ ELSE @ \cup rows_written("event", dd.run, 1),
                          !.log = Append(@, "publish"),
                          !.exc = raised,
                          !.pc = after_step(raised)]
    /\ UNCHANGED store
    /\ alert_unchanged

\* The atomic block is left: commit and return the result, or roll back and
\* let the exception reach the caller.
ComputeExit ==
    /\ dd.pc = "exit"
    /\ \E commit_ok \in BOOLEAN :
         /\ store' = [store EXCEPT !.rows = atomic_exit(@, dd.tx, dd.exc, commit_ok)]
         /\ dd' = [dd EXCEPT !.pc = IF dd.exc \/ ~commit_ok THEN "raised" ELSE "returned"]
    /\ alert_unchanged

ComputeNext ==
    \/ \E start_date \in StartDates, end_date \in EndDates : ComputeBegin(start_date, end_date)
    \/ ComputeAggregates
    \/ DetectSignals
    \/ PublishComputationEvent
    \/ ComputeExit

\* Drift computation reads no channel, rule or alert: its runs start from the
\* world without channels and operators.
ComputeInit ==
    /\ Init
    /\ cfg.exists = {}
    /\ ~cfg.feedback

ComputeSpec == ComputeInit /\ [][ComputeNext]_vars

ConcNext ==
    \/ \E w \in Workers, d \in DriftIds : CEvalBegin(w, d)
    \/ \E w \in Workers : CEvalCheck(w)
    \/ \E w \in Workers : CEvalCreate(w)
    \/ \E w \in Workers : CEvalReturn(w)
    \/ \E w \in Workers, a \in AlertIds : CSendBegin(w, a)
    \/ \E w \in Workers : CSendDispatch(w)

\* The concurrent runs race on one drift event, without operators.
ConcInit ==
    /\ Init
    /\ Cardinality(cfg.signals) = 1
    /\ ~cfg.feedback

ConcSpec == ConcInit /\ [][ConcNext]_vars

(***************************************************************************)
(* State machine: inserts into upstream_driftevent by any number of runs.  *)
(***************************************************************************)
pipeline_unchanged ==
    UNCHANGED <<cfg, now, alerts, audit, delivered, firstResult, lastEval, lastSend, batch,
                judgments, store, dd, wk>>

\* A drift computation inserts a signal: the unique index rejects the row
\* (IntegrityError) or the row is stored.
InsertSignal(row) ==
    /\ Len(de.rows) < MaxSignals
    /\ IF unique_index_conflict(de.rows, row)
         THEN de' = [de EXCEPT !.last = [row |-> row, rejected |-> TRUE]]
       ELSE de' = [rows |-> Append(de.rows, row), last |-> [row |-> row, rejected |-> FALSE]]
    /\ UNCHANGED sc
    /\ pipeline_unchanged

SignalNext == \E row \in SignalRows : InsertSignal(row)

SignalInit == ComputeInit

SignalSpec == SignalInit /\ [][SignalNext]_vars

(***************************************************************************)
(* State machine: calls of the scoring helpers.                            *)
(***************************************************************************)
\* The thresholds dicts the next call may get: a service scores all its
\* signals with one dict.
service_thresholds == IF sc.last = NoCall THEN ThresholdDicts ELSE {sc.thresholds}

\* categorize_severity(m, thresholds); the last two calls are kept.
CategorizeSeverity(m, thresholds) ==
    /\ sc' = [thresholds |-> thresholds, prev |-> sc.last,
              last |-> [m |-> m, result |-> categorize_severity(m, thresholds)],
              conf |-> NoConfidence]
    /\ UNCHANGED de
    /\ pipeline_unchanged

\* compute_confidence_score(sample_size, z_score) with the default min_sample_size.
ComputeConfidenceScore(sample_size, z_score) ==
    /\ sc' = [NoScore EXCEPT !.conf =
                [sample_size |-> sample_size, z_score |-> z_score,
                 result |-> compute_confidence_score(sample_size, z_score, MIN_SAMPLE_SIZE)]]
    /\ UNCHANGED de
    /\ pipeline_unchanged

SeverityNext ==
    \E m \in Magnitudes, thresholds \in service_thresholds : CategorizeSeverity(m, thresholds)

ConfidenceNext ==
    \E sample_size \in SampleSizes, z_score \in ZScores :
        ComputeConfidenceScore(sample_size, z_score)

ScoreInit == ComputeInit

SeveritySpec == ScoreInit /\ [][SeverityNext]_vars

ConfidenceSpec == ScoreInit /\ [][ConfidenceNext]_vars

(***************************************************************************)
(* Properties of the sequential pipeline (Spec).                           *)
(***************************************************************************)
Range(f) == { f[i] : i \in DOMAIN f }

alerts_of(d, r) == { i \in AlertIds : alerts[i].drift_event = d /\ alerts[i].alert_rule = r }

matching_rules(d) ==
    { r \in enabled_rules(DriftEvents[d].customer) : rule_evaluate(r, d) }

audit_count(au, action, a) == IF <<action, a>> \in DOMAIN au THEN au[<<action, a>>] ELSE 0

\* C1: after any number of sequential evaluate_drift_event calls on a signal,
\* each (signal, rule) pair whose enabled rule matches has exactly one
\* AlertEvent, and the call that has just returned returned the ids the first
\* call on that signal returned, one per matching rule.
C1_EvaluationIdempotent ==
    lastEval.d # "none" =>
        /\ Range(lastEval.result) = Range(firstResult[lastEval.d])
        /\ Len(lastEval.result) = Cardinality(matching_rules(lastEval.d))
        /\ \A r \in matching_rules(lastEval.d) :
             /\ Cardinality(alerts_of(lastEval.d, r)) = 1
             /\ alerts_of(lastEval.d, r) \subseteq Range(lastEval.result)

\* A second evaluation of a signal that two rules match has returned.
C1_Witness == lastEval.again /\ Len(lastEval.result) = 2

\* C4: a step never changes a row whose status is 'sent' or 'failed' and never
\* hands it to a transport, and a send_alert_notification call on such a row
\* returns True for 'sent' and False for 'failed' without calling a transport;
\* this covers the steps of process_pending_alerts.  The steps are those of
\* the engine: an operator's judgment is not automated processing.
C4_TerminalStatuses ==
    [][ \A a \in AlertIds :
          (alerts[a].status \in {"sent", "failed"} /\ judgments' = judgments) =>
            /\ alerts'[a] = alerts[a]
            /\ \A ch \in ChannelIds \cup {DefaultEmail} :
                 deliveries(delivered', a, ch) = deliveries(delivered, a, ch)
            /\ lastSend'.alert = a =>
                 /\ lastSend'.pre = alerts[a].status
                 /\ lastSend'.ret = (alerts[a].status = "sent")
                 /\ lastSend'.invoked = {}
                 /\ ~lastSend'.dispatched ]_vars

\* A call on a failed alert has just returned.
C4_Witness ==
    /\ lastSend.alert # NoAlert
    /\ lastSend.pre = "failed"
    /\ alerts[lastSend.alert].status = "failed"
    /\ ~lastSend.ret

\* C5 (as claimed): a call that dispatched a pending alert, in which some
\* sender returned True and none raised, returns True and leaves status 'sent'.
C5_AnyChannelSuccess ==
    (/\ lastSend.alert # NoAlert
     /\ lastSend.dispatched
     /\ lastSend.succeeded # {}
     /\ ~lastSend.raised)
    => /\ lastSend.ret
       /\ alerts[lastSend.alert].status = "sent"

\* C6 (as claimed): after a call on a pending alert the alert is 'sent' or
\* 'failed', and when process_pending_alerts has gone through its queryset no
\* alert that was pending at its start is still pending.
C6_PendingProcessedOnce ==
    /\ (lastSend.alert # NoAlert /\ lastSend.pre = "pending")
         => alerts[lastSend.alert].status \in {"sent", "failed"}
    /\ (batch.running /\ batch.todo = {})
         => \A a \in batch.start : alerts[a].status # "pending"

\* C7 (as claimed): no alert is delivered through the same channel twice.
C7_DeliveredAtMostOnce ==
    \A a \in AlertIds : \A ch \in ChannelIds \cup {DefaultEmail} :
        deliveries(delivered, a, ch) <= 1

\* C8: a call in which a sender raised was made on an alert that was neither
\* 'sent' nor 'failed'; it returns False, leaves the alert 'failed' with the
\* exception text as error_message, and emits exactly one
\* 'alert_event_failed' audit event and no 'alert_event_sent'.
C8_ExceptionCaptured ==
    [][ lastSend'.raised =>
          LET a == lastSend'.alert IN
            /\ lastSend'.pre \notin {"sent", "failed"}
            /\ ~lastSend'.ret
            /\ alerts'[a].status = "failed"
            /\ alerts'[a].error_message = ExceptionText
            /\ audit_count(audit', "alert_event_failed", a)
                 = audit_count(audit, "alert_event_failed", a) + 1
            /\ audit_count(audit', "alert_event_sent", a)
                 = audit_count(audit, "alert_event_sent", a) ]_vars

\* A call in which a sender raised has just returned.
C8_Witness == lastSend.raised /\ lastSend.invoked # {}

Evidences == { build_driftwatch_evidence_payload(d) : d \in DriftIds }

same_key(row, customer, ev) ==
    /\ row.customer = customer
    /\ row.payload.product_name = ev.product_name
    /\ row.payload.signal_type = ev.signal_type
    /\ row.payload.entity_label = ev.entity_label

\* C9: an alert of the customer with status 'sent' and the evidence's key,
\* sent no more than 4 hours ago, makes _is_suppressed true (so at T + 2h);
\* when every such alert was sent more than 4 hours ago it is false (so at
\* T + 4h + 1min).
C9_SuppressionWindow ==
    \A c \in Customers : \A ev \in Evidences :
      LET sent == { i \in AlertIds : alerts[i].status = "sent" /\ same_key(alerts[i], c, ev) }
      IN  /\ (\E i \in sent : now - alerts[i].notification_sent_at <= 240)
                => is_suppressed(c, ev, alerts, now)
          /\ (\E i \in sent : now = alerts[i].notification_sent_at + 120)
                => is_suppressed(c, ev, alerts, now)
          /\ (\A i \in sent : now - alerts[i].notification_sent_at > 240)
                => ~is_suppressed(c, ev, alerts, now)

\* An alert was sent at T, no other alert of its key since, and it is T + 4h + 1min.
C9_Witness ==
    \E i \in AlertIds :
      /\ alerts[i].status = "sent"
      /\ now = alerts[i].notification_sent_at + 241
      /\ \A j \in AlertIds :
           (alerts[j].status = "sent"
              /\ same_key(alerts[j], alerts[i].customer, alerts[i].payload))
             => alerts[j].notification_sent_at = alerts[i].notification_sent_at
      /\ ~is_suppressed(alerts[i].customer, alerts[i].payload, alerts, now)

\* The alerts of the key of row that a transport took, i.e. notifications
\* actually delivered.
delivered_for_key(row) ==
    { i \in AlertIds : /\ alerts[i].status = "sent"
                       /\ alerts[i].error_message = "none"
                       /\ same_key(alerts[i], row.customer, row.payload) }

\* C10 (as claimed): a pending alert processed more than 4 hours after the
\* latest notification actually delivered for its key is dispatched, not
\* suppressed.
C10_SentAgainAfterCooldown ==
    (/\ lastSend.alert # NoAlert
     /\ lastSend.pre = "pending"
     /\ delivered_for_key(alerts[lastSend.alert]) \ {lastSend.alert} # {}
     /\ \A i \in delivered_for_key(alerts[lastSend.alert]) \ {lastSend.alert} :
          now > alerts[i].notification_sent_at + 240)
    => lastSend.dispatched

(***************************************************************************)
(* Properties of concurrent callers (ConcSpec).                            *)
(***************************************************************************)
\* C2 (as claimed): whatever the interleaving of the lookups and creates of
\* concurrent evaluate_drift_event calls, a (drift_event, alert_rule) pair
\* has at most one AlertEvent.
C2_AtMostOnePerPair ==
    \A d \in DriftIds : \A r \in RuleIds : Cardinality(alerts_of(d, r)) <= 1

\* C3 (as claimed): of two send_alert_notification calls that were in flight
\* together on the same pending alert, at most one called a transport.
C3_NoDoubleDelivery ==
    \A a \in AlertIds :
        ~(\A w \in Workers : /\ wk[w].pc = "idle"
                             /\ wk[w].a = a
                             /\ wk[w].overlap
                             /\ wk[w].invoked)

(***************************************************************************)
(* Suppression key.                                                        *)
(***************************************************************************)
\* The evidence payloads a suppression check may be asked about: every
\* combination of product, signal type and entity label.
EvidenceSpace ==
    [product_name : {"DriftWatch", "DelayGuard"},
     signal_type  : {"denial_rate", "payment_delay"},
     entity_label : {"PayerA", "PayerB"}]

\* C11: _is_suppressed is true only when a 'sent' alert of the customer has
\* the evidence's product_name, signal_type and entity_label, and gives the
\* answer it gives on the table without the alerts of any other key; a
\* pending alert that a call suppressed has another 'sent' alert of its own
\* customer and key.
C11_KeySpecificity ==
    /\ \A c \in Customers : \A ev \in EvidenceSpace :
         /\ is_suppressed(c, ev, alerts, now)
              => \E i \in AlertIds : alerts[i].status = "sent" /\ same_key(alerts[i], c, ev)
         /\ is_suppressed(c, ev, alerts, now)
              = is_suppressed(c, ev, SelectSeq(alerts, LAMBDA row : same_key(row, c, ev)), now)
    /\ (lastSend.alert # NoAlert /\ lastSend.pre = "pending" /\ ~lastSend.dispatched)
         => \E i \in AlertIds \ {lastSend.alert} :
               /\ alerts[i].status = "sent"
               /\ same_key(alerts[i], alerts[lastSend.alert].customer,
                           alerts[lastSend.alert].payload)

\* A PayerB alert has just been dispatched while a PayerA alert of the same
\* customer and signal type, sent within the window, suppresses PayerA.
C11_Witness ==
    /\ lastSend.alert # NoAlert
    /\ lastSend.dispatched
    /\ alerts[lastSend.alert].payload.entity_label = "PayerB"
    /\ \E i \in AlertIds :
         /\ alerts[i].status = "sent"
         /\ alerts[i].customer = alerts[lastSend.alert].customer
         /\ alerts[i].payload.entity_label = "PayerA"
         /\ alerts[i].payload.signal_type = alerts[lastSend.alert].payload.signal_type
         /\ is_suppressed(alerts[i].customer, alerts[i].payload, alerts, now)
         /\ ~is_suppressed(alerts[i].customer,
                           [alerts[i].payload EXCEPT !.entity_label = "PayerB"],
                           [alerts EXCEPT ![lastSend.alert].status = "pending"], now)

(***************************************************************************)
(* Noise pattern.                                                          *)
(***************************************************************************)
\* The 'noise' OperatorJudgment records carried by the resolved alerts of
\* the customer with the evidence's key.
RECURSIVE noise_judgments(_, _, _)
noise_judgments(ids, customer, ev) ==
    IF ids = {} THEN 0
    ELSE LET i == CHOOSE x \in ids : TRUE
             n == IF /\ alerts[i].status = "resolved"
                     /\ same_key(alerts[i], customer, ev)
                     /\ <<i, "noise">> \in DOMAIN judgments
                    THEN judgments[<<i, "noise">>] ELSE 0
         IN  n + noise_judgments(ids \ {i}, customer, ev)

\* C12 (as claimed): two or more 'noise' judgments on resolved alerts of the
\* customer and key make _is_suppressed true, whatever was sent in the last
\* 4 hours.
C12_NoisePatternSuppresses ==
    \A c \in Customers : \A ev \in Evidences :
        noise_judgments(AlertIds, c, ev) >= 2 => is_suppressed(c, ev, alerts, now)

(***************************************************************************)
(* Suppressed branch.                                                      *)
(***************************************************************************)
\* C13: a send_alert_notification call on a pending alert for which
\* _is_suppressed is true saves status 'sent', error_message 'suppressed' and
\* notification_sent_at = now on that alert and nothing else, returns True,
\* and calls no transport.
C13_SuppressedBranch ==
    [][ LET a == lastSend'.alert IN
        (/\ a # NoAlert
         /\ lastSend'.pre = "pending"
         /\ is_suppressed(alerts[a].customer,
                          build_driftwatch_evidence_payload(alerts[a].drift_event), alerts, now))
        => /\ alerts'[a] = [alerts[a] EXCEPT !.status = "sent",
                                             !.notification_sent_at = now,
                                             !.error_message = "suppressed"]
           /\ \A i \in AlertIds \ {a} : alerts'[i] = alerts[i]
           /\ lastSend'.ret
           /\ lastSend'.invoked = {}
           /\ ~lastSend'.dispatched
           /\ delivered' = delivered ]_vars

\* A call has just returned True on a pending alert it found suppressed.
C13_Witness ==
    /\ lastSend.alert # NoAlert
    /\ lastSend.pre = "pending"
    /\ lastSend.ret
    /\ ~lastSend.dispatched
    /\ alerts[lastSend.alert].status = "sent"
    /\ alerts[lastSend.alert].error_message = "suppressed"
    /\ alerts[lastSend.alert].notification_sent_at = now

(***************************************************************************)
(* Channel resolution.                                                     *)
(***************************************************************************)
\* The first non-empty of: the rule's routing channels that are enabled, the
\* customer's enabled channels, the system-default email recipient.
first_non_empty_channels(rule, customer) ==
    LET routed == cfg.routing[rule] \cap cfg.enabled
        own    == { ch \in cfg.enabled : Channels[ch].customer = customer }
    IN  IF routed # {} THEN routed
        ELSE IF own # {} THEN own
        ELSE {DefaultEmail}

\* C14 (as claimed): a call that dispatches an alert calls transports only of
\* the first non-empty of those three sets, and when that set is the default
\* email and the email goes out the alert is 'sent'.
C14_ChannelResolution ==
    (lastSend.alert # NoAlert /\ lastSend.dispatched) =>
        LET row == alerts[lastSend.alert]
            chs == first_non_empty_channels(row.alert_rule, row.customer)
        IN  /\ lastSend.invoked \subseteq chs
            /\ (chs = {DefaultEmail} /\ DefaultEmail \in lastSend.succeeded)
                 => (lastSend.ret /\ row.status = "sent")

(***************************************************************************)
(* Properties of drift computation runs (ComputeSpec).                     *)
(***************************************************************************)
rows_of_run(rows, r) == { x \in rows : x.run = r }

IsPrefix(s, t) == Len(s) <= Len(t) /\ \A i \in 1..Len(s) : s[i] = t[i]

\* C15: when _compute_aggregates, _detect_signals or the publication of the
\* audit event raises, leaving the atomic block changes no committed row and
\* hands the exception to the caller; after a run that raised, no aggregate,
\* signal or event row of that run is committed; and once a step has raised,
\* no step of that run is executed again.
C15_AllOrNothing ==
    [][ /\ (dd.pc = "exit" /\ dd.exc) => (dd'.pc = "raised" /\ store'.rows = store.rows)
        /\ dd'.pc = "raised" => rows_of_run(store'.rows, dd'.run) = {}
        /\ (dd.exc /\ dd'.run = dd.run) => dd'.log = dd.log ]_vars

\* _detect_signals raised after _compute_aggregates had written rows, the
\* exception reached the caller, and no row of the run is committed.
C15_Witness ==
    /\ dd.pc = "raised"
    /\ dd.exc
    /\ dd.log = <<"aggregates", "signals">>
    /\ \E x \in dd.tx : x.kind = "aggregate"
    /\ rows_of_run(store.rows, dd.run) = {}

\* C16: in one compute() call the steps run in the order aggregates, signals,
\* audit event; the committed rows change only by the addition, in one step,
\* of everything a run wrote, after all three steps, with exactly one event
\* row; and while the call is inside the atomic block no row of its run is
\* committed.
C16_OrderedAndAtomicallyVisible ==
    [][ /\ IsPrefix(dd'.log, <<"aggregates", "signals", "publish">>)
        /\ store'.rows # store.rows =>
             /\ store'.rows = store.rows \cup dd.tx
             /\ dd.log = <<"aggregates", "signals", "publish">>
             /\ Cardinality({ x \in dd.tx : x.kind = "event" }) = 1
             /\ \A x \in dd.tx : x.run = dd.run
        /\ dd'.pc \in {"run", "exit"} => rows_of_run(store'.rows, dd'.run) = {} ]_vars

\* A run has returned and its aggregates, signals and event are committed.
C16_Witness ==
    /\ dd.pc = "returned"
    /\ \A kind \in {"aggregate", "signal", "event"} :
         \E x \in rows_of_run(store.rows, dd.run) : x.kind = kind
    /\ dd.aggregates_created = MaxRows
    /\ dd.signals_created = 1

\* C17 (as claimed): the windows of every compute() call satisfy
\* baseline.start <= baseline.end = current.start <= current.end = end_date,
\* end_date being today when none is given.
C17_WindowsContiguous ==
    dd.pc # "idle" =>
        /\ dd.baseline.start <= dd.baseline.end
        /\ dd.baseline.end = dd.current.start
        /\ dd.current.start <= dd.current.end
        /\ dd.current.end = (IF dd.args.end_date = NoDate THEN Today ELSE dd.args.end_date)

(***************************************************************************)
(* Properties of evaluate_drift_event and process_pending_alerts (Spec).   *)
(***************************************************************************)
\* C18: an evaluate_drift_event call returns, in the order the rules were
\* iterated, one AlertEvent of the signal for each rule of the signal's
\* customer that is enabled and whose threshold comparison holds, and for no
\* other rule; the AlertEvents it created have status 'pending'.
C18_EvaluateReturnsMatches ==
    [][ lastEval'.d # "none" =>
          LET d    == lastEval'.d
              res  == lastEval'.result
              hits == SelectSeq(lastEval'.order, LAMBDA r : rule_evaluate(r, d))
          IN  /\ Range(hits) = { r \in RuleIds : /\ AlertRules[r].enabled
                                                 /\ AlertRules[r].customer = DriftEvents[d].customer
                                                 /\ rule_evaluate(r, d) }
              /\ Len(res) = Len(hits)
              /\ \A k \in 1..Len(res) :
                   /\ res[k] \in 1..Len(alerts')
                   /\ alerts'[res[k]].alert_rule = hits[k]
                   /\ alerts'[res[k]].drift_event = d
                   /\ alerts'[res[k]].customer = DriftEvents[d].customer
                   /\ res[k] > Len(alerts) => alerts'[res[k]].status = "pending"
              /\ Len(alerts') = Len(alerts) + Cardinality({ k \in 1..Len(res) : res[k] > Len(alerts) })
        ]_vars

\* A first evaluation of the signal of severity 0.72, iterated 'lt 0.74'
\* before 'gte 0.70', has returned two pending AlertEvents in that order.
C18_Witness ==
    /\ lastEval.d = "d2"
    /\ ~lastEval.again
    /\ lastEval.order = <<"r2", "r1">>
    /\ Len(lastEval.result) = 2
    /\ alerts[lastEval.result[1]].alert_rule = "r2"
    /\ alerts[lastEval.result[2]].alert_rule = "r1"
    /\ \A k \in 1..2 : alerts[lastEval.result[k]].status = "pending"

\* C19: an evaluate_drift_event call changes no field of any AlertEvent that
\* existed before it, whatever its status, hands nothing to a transport, and
\* emits no audit event other than 'alert_event_created' for the AlertEvents
\* it created.
C19_ExistingUnchanged ==
    [][ lastEval'.d # "none" =>
          /\ \A a \in AlertIds : alerts'[a] = alerts[a]
          /\ delivered' = delivered
          /\ \A a \in 1..Len(alerts') :
               /\ audit_count(audit', "alert_event_sent", a) = audit_count(audit, "alert_event_sent", a)
               /\ audit_count(audit', "alert_event_failed", a)
                    = audit_count(audit, "alert_event_failed", a)
               /\ a \in AlertIds => audit_count(audit', "alert_event_created", a)
                                      = audit_count(audit, "alert_event_created", a) ]_vars

\* A re-evaluation has just returned a 'sent' and a 'failed' AlertEvent,
\* both as they were.
C19_Witness ==
    /\ lastEval.again
    /\ \E i, j \in Range(lastEval.result) :
         /\ alerts[i].status = "sent"
         /\ alerts[i].notification_sent_at # NoTime
         /\ alerts[j].status = "failed"
         /\ alerts[j].error_message = ExceptionText

\* C20: while process_pending_alerts runs, the alerts it has called
\* send_alert_notification on and those it has still to call it on are the
\* alerts that were pending at its start, total is their number, sent is the
\* number of calls that returned True and sent + failed the number of calls
\* made, a call that raised included; when the loop is over every alert
\* pending at the start has been called and sent + failed = total.
C20_BatchCounts ==
    batch.running =>
        /\ batch.called \cup batch.todo = batch.start
        /\ batch.called \cap batch.todo = {}
        /\ batch.total = Cardinality(batch.start)
        /\ batch.sent = batch.trues
        /\ batch.sent + batch.failed = Cardinality(batch.called)
        /\ batch.todo = {} => (batch.called = batch.start
                               /\ batch.sent + batch.failed = batch.total)

\* A batch over two alerts is over: the call on the first raised, the call on
\* the second was made all the same and returned True.
C20_Witness ==
    /\ batch.running
    /\ batch.todo = {}
    /\ batch.total = 2
    /\ batch.escaped = 1
    /\ batch.sent = 1
    /\ batch.failed = 1
    /\ lastSend.alert # NoAlert
    /\ lastSend.ret

(***************************************************************************)
(* Audit trail (Spec).                                                     *)
(***************************************************************************)
\* C27: every AlertEvent row has exactly one 'alert_event_created' audit
\* event and there is no such event for anything else, so after any sequence
\* of evaluate_drift_event calls their number is the number of rows created;
\* a call that returned only AlertEvents it found added none.
C27_CreatedAuditedOnce ==
    /\ \A a \in AlertIds : audit_count(audit, "alert_event_created", a) = 1
    /\ \A e \in DOMAIN audit : e[1] = "alert_event_created" => e[2] \in AlertIds

\* A re-evaluation has just returned two AlertEvents it found.
C27_Witness ==
    /\ lastEval.again
    /\ Len(lastEval.result) = 2
    /\ Len(alerts) = 2
    /\ \A a \in Range(lastEval.result) : audit_count(audit, "alert_event_created", a) = 1

\* C28 (as claimed): in a send_alert_notification call, a change of the
\* alert's status to 'sent' comes with exactly one 'alert_event_sent' audit
\* event, a change to 'failed' with exactly one 'alert_event_failed', and a
\* call that changes no status emits neither.
C28_StatusChangesAudited ==
    [][ lastSend'.alert # NoAlert =>
          LET a  == lastSend'.alert
              ds == audit_count(audit', "alert_event_sent", a)
                      - audit_count(audit, "alert_event_sent", a)
              df == audit_count(audit', "alert_event_failed", a)
                      - audit_count(audit, "alert_event_failed", a)
          IN  /\ (alerts'[a].status = "sent" /\ alerts[a].status # "sent") => (ds = 1 /\ df = 0)
              /\ (alerts'[a].status = "failed" /\ alerts[a].status # "failed") => (ds = 0 /\ df = 1)
              /\ alerts'[a].status = alerts[a].status => (ds = 0 /\ df = 0) ]_vars

\* C29: when a send_alert_notification call has returned, it returned True
\* exactly if the alert's status is 'sent', whatever the status was before
\* and whatever the senders answered.
C29_TrueIffSent ==
    lastSend.alert # NoAlert =>
        (lastSend.ret <=> alerts[lastSend.alert].status = "sent")

\* A call has dispatched a pending alert, no sender raised, the last one
\* returned False: the call returned False and the alert is not 'sent'.
C29_Witness ==
    /\ lastSend.alert # NoAlert
    /\ lastSend.pre = "pending"
    /\ lastSend.dispatched
    /\ ~lastSend.raised
    /\ lastSend.succeeded # {}
    /\ ~lastSend.ret
    /\ alerts[lastSend.alert].status = "pending"

\* C30 (as claimed): a send_alert_notification call on an alert whose status
\* was not 'pending' called no transport and left the status as it was.
C30_OnlyPendingDispatched ==
    (lastSend.alert # NoAlert /\ lastSend.pre # "pending") =>
        /\ lastSend.invoked = {}
        /\ ~lastSend.dispatched
        /\ alerts[lastSend.alert].status = lastSend.pre

(***************************************************************************)
(* Channel senders (Spec).                                                 *)
(***************************************************************************)
\* C25 (as claimed): a call that dispatched a pending alert called the sender
\* of every email and Slack channel it resolved.
C25_ChannelsIndependent ==
    (lastSend.alert # NoAlert /\ lastSend.pre = "pending" /\ lastSend.dispatched) =>
        LET row == alerts[lastSend.alert] IN
        \A ch \in resolve_channels(row.alert_rule, row.customer) :
            Channels[ch].channel_type \in {"email", "slack"} => ch \in lastSend.attempted


\* The outcomes out with every attachment failure taken away.
attachment_ok(out) ==
    [ch \in DOMAIN out |-> IF transport_ok(out[ch]) THEN "ok" ELSE "fail"]

\* C26: soft failures do not fail an alert.  A call on a pending alert ends
\* with the same row, return value, audit log and deliveries whether or not
\* the PDF attachment of any of its emails failed; an email whose attachment
\* failed and whose transport works goes out exactly once, without it; and a
\* Slack sender called while Slack is disabled reports success without
\* calling its transport.
C26_SoftFailuresHarmless ==
    /\ \A a \in AlertIds :
         alerts[a].status = "pending" =>
           LET obj == alerts[a] IN
           \A order \in Perms(resolve_channels(obj.alert_rule, obj.customer)) :
           \A out \in outcome_space(obj) :
             LET res  == send_alert_notification(a, obj, order, out, alerts, audit, delivered, now)
                 base == send_alert_notification(a, obj, order, attachment_ok(out), alerts, audit,
                                                 delivered, now)
             IN  /\ res.alerts = base.alerts
                 /\ res.ret = base.ret
                 /\ res.audit = base.audit
                 /\ res.delivered = base.delivered
                 /\ \A ch \in res.bare :
                      deliveries(res.delivered, a, ch) = deliveries(delivered, a, ch) + 1
                 /\ \A ch \in res.attempted :
                      (ch # DefaultEmail /\ Channels[ch].channel_type = "slack"
                         /\ ~cfg.slack_enabled) =>
                        (ch \in res.succeeded /\ ch \notin res.invoked)
    /\ lastSend.bare \subseteq lastSend.succeeded

\* A call dispatched a pending alert, the attachment of one of its emails
\* failed, a disabled Slack sender was called, and the alert is 'sent'.
C26_Witness ==
    /\ lastSend.alert # NoAlert
    /\ lastSend.pre = "pending"
    /\ lastSend.bare # {}
    /\ \E ch \in lastSend.attempted \ {DefaultEmail} :
         Channels[ch].channel_type = "slack" /\ ch \notin lastSend.invoked
    /\ alerts[lastSend.alert].status = "sent"


\* The worlds that differ from w only in which channels of customers other
\* than c are enabled.
others_varied(w, c) ==
    LET own    == { ch \in w.exists : Channels[ch].customer = c }
        others == w.exists \ own
    IN  { [w EXCEPT !.enabled = (w.enabled \cap own) \cup E] : E \in SUBSET others }

\* The AlertEvent rows of customer c.
rows_of_customer(db, c) == SelectSeq(db, LAMBDA row : row.customer = c)

\* C22 (as claimed): tenant isolation.  Every AlertEvent has the customer of
\* its signal and of its rule; the channels chosen for it are the same
\* whichever channels of other customers are enabled; and whether it is
\* suppressed is the same with and without the alerts of other customers.
C22_TenantIsolation ==
    \A a \in AlertIds :
        LET row == alerts[a]
            c   == row.customer
        IN  /\ DriftEvents[row.drift_event].customer = c
            /\ AlertRules[row.alert_rule].customer = c
            /\ \A w \in others_varied(cfg, c) :
                 channels_in(w, row.alert_rule, c) = channels_in(cfg, row.alert_rule, c)
            /\ is_suppressed(c, build_driftwatch_evidence_payload(row.drift_event), alerts, now)
                 = is_suppressed(c, build_driftwatch_evidence_payload(row.drift_event),
                                 rows_of_customer(alerts, c), now)


(***************************************************************************)
(* Properties of the drift signal table (SignalSpec).                      *)
(***************************************************************************)
\* C21 (as claimed): no two stored drift signals share the identity tuple
\* (customer, report_run, payer, cpt_group, drift_type), payer-level signals
\* with a NULL cpt_group included.
C21_SignalsUnique ==
    \A i, j \in 1..Len(de.rows) :
        i # j => \E col \in IdentityColumns : de.rows[i][col] # de.rows[j][col]

(***************************************************************************)
(* Properties of the scoring helpers (ConfidenceSpec, SeveritySpec).       *)
(***************************************************************************)
\* min(sample_size/40, 1)*0.5 + min(|z|/1.96, 1)*0.5 over the denominator
\* 3920, z in hundredths.
confidence_formula(sample_size, z_score) ==
    <<(IF sample_size < 40 THEN sample_size ELSE 40) * 49
        + (IF Abs(z_score) < 196 THEN Abs(z_score) ELSE 196) * 10, 3920>>

\* C23: with the default min_sample_size, compute_confidence_score returns a
\* value in [0.0, 1.0] that is the decimal of
\* min(sample_size/40, 1)*0.5 + min(|z|/1.96, 1)*0.5, and at most 0.5 when
\* sample_size is 0 or z is 0.
C23_ConfidenceBounds ==
    sc.conf # NoConfidence =>
        /\ 0 <= sc.conf.result
        /\ sc.conf.result <= DecimalOne
        /\ sc.conf.result = to_decimal(confidence_formula(sc.conf.sample_size, sc.conf.z_score))
        /\ (sc.conf.sample_size = 0 \/ sc.conf.z_score = 0) => 2 * sc.conf.result <= DecimalOne

\* The score of a full sample with a z-score below -1.96 has been computed
\* and is 1.0.
C23_Witness ==
    /\ sc.conf # NoConfidence
    /\ sc.conf.sample_size >= 40
    /\ sc.conf.z_score < -196
    /\ sc.conf.result = DecimalOne

severity_rank(s) ==
    CASE s = "low" -> 0 [] s = "medium" -> 1 [] s = "high" -> 2 [] s = "critical" -> 3

\* C24: categorize_severity is monotone in the magnitude for any fixed
\* thresholds dict, and without thresholds the result is critical from 0.30,
\* high from 0.20, medium from 0.10 and low below.
C24_SeverityMonotone ==
    /\ (sc.prev # NoCall /\ sc.last # NoCall /\ sc.prev.m < sc.last.m) =>
          severity_rank(sc.prev.result) <= severity_rank(sc.last.result)
    /\ (sc.last # NoCall /\ DOMAIN sc.thresholds = {}) =>
          sc.last.result = (IF sc.last.m >= 30 THEN "critical"
                            ELSE IF sc.last.m >= 20 THEN "high"
                            ELSE IF sc.last.m >= 10 THEN "medium"
                            ELSE "low")

\* Two magnitudes have been categorised under a thresholds dict whose
\* 'critical' cut-off lies below its 'medium' one, and the larger magnitude
\* got the higher severity.
C24_Witness ==
    /\ sc.prev # NoCall
    /\ sc.last # NoCall
    /\ sc.prev.m < sc.last.m
    /\ DOMAIN sc.thresholds = SeverityKeys
    /\ sc.thresholds["critical"] < sc.thresholds["medium"]
    /\ severity_rank(sc.prev.result) < severity_rank(sc.last.result)

====
